---- MODULE Spec2Model ----
(***************************************************************************)
(* Firefox bookmarks/history plugin (src/__init__.py): the foreground      *)
(* context that owns the configuration and calls updateIndexItems, the     *)
(* worker threads that run update_index_items_task, the favicons           *)
(* directory, the two sqlite stores of every profile and the item          *)
(* collection published with setIndexItems.                                *)
(*                                                                         *)
(* Strings that the code formats or lower-cases (titles, URLs, searchable  *)
(* strings) are sequences of one-character strings; guids, file names and  *)
(* icon URLs are TLA+ strings.                                             *)
(*                                                                         *)
(* The setters and updateIndexItems run in one foreground context (the     *)
(* host's main thread): a call runs to its return before the next begins.  *)
(* The code holds no lock; two foreground contexts are not modelled.       *)
(*                                                                         *)
(* Specifications: Spec (the constructed plugin with setters, rebuilds,    *)
(* __del__ and faults of the environment), SpecBuild (two rebuilds over    *)
(* every store content within the bounds), SpecFaults (unlink and write    *)
(* errors with two favicon files), SpecDiscovery (get_available_profiles   *)
(* over every registry within the bounds), SpecPlugin (__init__ over what  *)
(* is persisted and discovered, then two calls) and SpecLive (Spec         *)
(* without faults, with the fairness of the code's scheduling).            *)
(***************************************************************************)
EXTENDS Integers, Sequences, FiniteSets, TLC

\* ------------------------------------------------------------------ bounds
\* Foreground calls (setter calls and host calls of updateIndexItems) in a run.
MaxOps == 3
\* Faults of the environment in a run: store files removed, queries that end with
\* sqlite3.Error, unlink and write calls that end with OSError.
MaxFaults == 1
\* Rows of the bookmarks query and of the history query in the build specification.
MaxBookmarks == 2
MaxHistory == 2
\* Sections of profiles.ini in the discovery specification.
MaxSections == 2

\* ------------------------------------------------------------------ values
Profiles == {"pA", "pB"}
NoProfile == "-"
TIDs == 1..MaxOps

\* Python's None as a title; no string of characters equals it.
None == <<"None">>
StrNone == <<"N", "o", "n", "e">>
U1 == <<"h", ":", "a">>
U2 == <<"h", ":", "B">>
U3 == <<"h", ":", "c">>
TEx == <<"É", "x">>
THi == <<"h", "i">>
Blob1 == <<137, 80>>
Blob2 == <<137, 81>>

firefox_bookmark_icon == "firefox_bookmark.svg"
firefox_history_icon == "firefox_history.svg"

\* The alphabet of the model is U+0000..U+00FF.  In that range str.lower() maps
\* one character to one character: the 26 letters A-Z and the 30 letters
\* U+00C0..U+00DE without U+00D7 have a lower-case form (32 code points up),
\* every other character is its own.  Characters above U+00FF are outside the
\* alphabet.
UpperChars == <<"A", "B", "C", "D", "E", "F", "G", "H", "I", "J", "K", "L", "M",
                "N", "O", "P", "Q", "R", "S", "T", "U", "V", "W", "X", "Y", "Z",
                "À", "Á", "Â", "Ã", "Ä", "Å", "Æ", "Ç", "È", "É", "Ê", "Ë", "Ì",
                "Í", "Î", "Ï", "Ð", "Ñ", "Ò", "Ó", "Ô", "Õ", "Ö", "Ø", "Ù", "Ú",
                "Û", "Ü", "Ý", "Þ">>
LowerChars == <<"a", "b", "c", "d", "e", "f", "g", "h", "i", "j", "k", "l", "m",
                "n", "o", "p", "q", "r", "s", "t", "u", "v", "w", "x", "y", "z",
                "à", "á", "â", "ã", "ä", "å", "æ", "ç", "è", "é", "ê", "ë", "ì",
                "í", "î", "ï", "ð", "ñ", "ò", "ó", "ô", "õ", "ö", "ø", "ù", "ú",
                "û", "ü", "ý", "þ">>

\* str.lower(), character by character.
LowerChar(c) ==
    IF \E k \in 1..Len(UpperChars) : UpperChars[k] = c
    THEN LowerChars[CHOOSE k \in 1..Len(UpperChars) : UpperChars[k] = c]
    ELSE c
Lower(s) == [k \in 1..Len(s) |-> LowerChar(s[k])]

\* f"{title}": None formats as the four characters of "None".
FormatStr(v) == IF v = None THEN StrNone ELSE v
\* Python truthiness of a title: None and "" are false.
Truthy(v) == v # None /\ v # <<>>

\* f"{title} {url}".lower()
SearchString(title, url) == Lower(FormatStr(title) \o <<" ">> \o url)
\* title if title else url
DisplayText(title, url) == IF Truthy(title) THEN title ELSE url

\* favicons_location / f"favicon_{guid}.png"
FaviconPath(guid) == "favicons/favicon_" \o guid \o ".png"

Actions(url) == << [id |-> "open", url |-> url], [id |-> "copy", url |-> url] >>

StandardItem(guid, title, url, icon_urls) ==
    [id |-> guid, text |-> DisplayText(title, url), subtext |-> url,
     iconUrls |-> icon_urls, actions |-> Actions(url)]

IndexItem(item, string) == [item |-> item, string |-> string]

FaviconIconUrls(guid) == << "file:" \o FaviconPath(guid), "xdg:firefox" >>
FallbackIconUrls == << "file:" \o firefox_bookmark_icon, "xdg:firefox" >>
HistoryIconUrls == << "file:" \o firefox_history_icon, "xdg:firefox" >>

\* {row[0]: row[1] for row in cursor.fetchall()}: a later row replaces an earlier
\* one with the same page_url_hash.
RECURSIVE FaviconsDict(_)
FaviconsDict(rows) ==
    IF rows = <<>> THEN <<>>
    ELSE LET d == FaviconsDict(SubSeq(rows, 1, Len(rows) - 1))
             r == rows[Len(rows)]
         IN [h \in (DOMAIN d) \cup {r[1]} |-> IF h = r[1] THEN r[2] ELSE d[h]]

\* favicon_data = favicons.get(url_hash); if favicon_data:
HasFavicon(favicons, url_hash) ==
    url_hash \in DOMAIN favicons /\ favicons[url_hash] # <<>>

\* The item appended for a bookmark row (lines 245-269).
BookmarkIndexItem(b, favicons) ==
    IndexItem(StandardItem(b.guid, b.title, b.url,
                           IF HasFavicon(favicons, b.url_hash)
                           THEN FaviconIconUrls(b.guid) ELSE FallbackIconUrls),
              SearchString(b.title, b.url))

\* The item appended for a history row (lines 278-295).
HistoryIndexItem(h) ==
    IndexItem(StandardItem(h.guid, h.title, h.url, HistoryIconUrls),
              SearchString(h.title, h.url))

\* ------------------------------------------------------------------ state
VARIABLES
    cur_profile,    \* self._current_profile_path
    index_history,  \* self._index_history
    attrs,          \* which of the two attributes above __init__ or a setter has set
    profiles,       \* self.profiles
    config,         \* the host's persisted configuration: key -> value
    persisted,      \* the host's configuration as it was before __init__
    registry,       \* the firefox root directory and its profiles.ini
    fg,             \* the foreground context: "new" (before __init__), "idle",
                    \* "call" (about to run updateIndexItems), "join" (blocked in
                    \* thread.join()), "started" (line 216 has started the thread,
                    \* updateIndexItems has not yet returned), "released" (the host
                    \* holds the plugin no longer, the running thread does),
                    \* "deljoin" (__del__ blocked in thread.join()), "deleted"
    thread,         \* self.thread: 0 for None, else the id of the last thread started
    th,             \* th[t]: position and locals of worker thread t
    files,          \* the favicons directory: file path -> bytes
    published,      \* the host's item collection (setIndexItems)
    store,          \* store[p]: rows the three queries return for profile p
    missing,        \* store files that do not exist: <<profile, "places" | "favicons">>
    emptied,        \* store files that sqlite3.connect (line 62) created anew: they
                    \* exist and hold no table
    built,          \* what the rebuild that published last had read
    ncalls,         \* foreground calls begun
    nfaults,        \* faults of the environment so far
    burst           \* rebuilds started after a join since a call last found no
                    \* rebuild alive

vars == << cur_profile, index_history, attrs, profiles, config, persisted, registry, fg, thread,
           th, files, published, store, missing, emptied, built, ncalls, nfaults, burst >>

\* ------------------------------------------------------------------ the build
\* Mutant of BookmarkStep: the item is put at the head of index_items.
BookmarkStepPrepend(acc, b, favicons) ==
    IF b.url \in acc.seen THEN acc
    ELSE [items |-> << BookmarkIndexItem(b, favicons) >> \o acc.items,
          seen |-> acc.seen \cup {b.url}]

\* One pass of the bookmarks loop body (lines 239-269) over the accumulator
\* [items, seen]: a row whose URL was seen is skipped.
BookmarkStep(acc, b, favicons) ==
    IF b.url \in acc.seen THEN acc
    ELSE [items |-> Append(acc.items, BookmarkIndexItem(b, favicons)),
          seen |-> acc.seen \cup {b.url}]

\* Mutant of HistoryStep: line 275's test of seen_urls is left out.
HistoryStepNoSeenTest(acc, h) ==
    [items |-> Append(acc.items, HistoryIndexItem(h)),
     seen |-> acc.seen \cup {h.url}]

\* One pass of the history loop body (lines 274-295).
HistoryStep(acc, h) ==
    IF h.url \in acc.seen THEN acc
    ELSE [items |-> Append(acc.items, HistoryIndexItem(h)),
          seen |-> acc.seen \cup {h.url}]

RECURSIVE FoldBookmarks(_, _, _)
FoldBookmarks(acc, rows, favicons) ==
    IF rows = <<>> THEN acc
    ELSE FoldBookmarks(BookmarkStep(acc, Head(rows), favicons), Tail(rows), favicons)

RECURSIVE FoldHistory(_, _)
FoldHistory(acc, rows) ==
    IF rows = <<>> THEN acc
    ELSE FoldHistory(HistoryStep(acc, Head(rows)), Tail(rows))

\* index_items as line 297 holds it, from what the task read (lines 236-295).
BuildIndexItems(bookmarks, favicons, history, include_history) ==
    LET afterBookmarks == FoldBookmarks([items |-> <<>>, seen |-> {}], bookmarks, favicons)
    IN IF include_history THEN FoldHistory(afterBookmarks, history).items
       ELSE afterBookmarks.items

\* The favicon files lines 239-249 write for these bookmark rows: path -> bytes.
RECURSIVE FaviconFiles(_, _, _)
FaviconFiles(rows, favicons, seen) ==
    IF rows = <<>> THEN <<>>
    ELSE LET b == Head(rows)
             rest == FaviconFiles(Tail(rows), favicons, seen \cup {b.url})
         IN IF b.url \notin seen /\ HasFavicon(favicons, b.url_hash)
            THEN [f \in (DOMAIN rest) \cup {FaviconPath(b.guid)} |->
                     IF f \in DOMAIN rest THEN rest[f] ELSE favicons[b.url_hash]]
            ELSE rest

\* ------------------------------------------------------------------ threads
NewThread ==
    [pc |-> "new", places_db |-> NoProfile, favicons_db |-> NoProfile,
     bookmarks |-> <<>>, todel |-> {}, favicons |-> <<>>, index_items |-> <<>>,
     seen_urls |-> {}, i |-> 0, history |-> <<>>,
     start_profile |-> NoProfile, start_history |-> FALSE, read_history |-> FALSE,
     bq_err |-> FALSE, fq_err |-> FALSE, hq_err |-> FALSE]

\* threading.Thread.is_alive(): started and not yet ended.  A thread whose target
\* has returned ("returning") or raised ("raising") is alive until it has ended
\* ("done", "failed").
IsAlive(t) == t # 0 /\ th[t].pc \notin {"new", "done", "failed", "gone"}

NoBuild ==
    [places_db |-> NoProfile, favicons_db |-> NoProfile,
     bookmarks |-> <<>>, favicons |-> <<>>, history |-> <<>>,
     start_profile |-> NoProfile, start_history |-> FALSE, read_history |-> FALSE,
     bq_err |-> FALSE, fq_err |-> FALSE, hq_err |-> FALSE]

\* The stores of the concurrency specification: pA bookmarks a URL that is also in
\* its history; pA and pB hold favicons for different url hashes.
FixedStore ==
    [p \in Profiles |->
        IF p = "pA"
        THEN [bookmarks |-> << [guid |-> "b1", title |-> TEx, url |-> U1, url_hash |-> 41],
                               [guid |-> "b2", title |-> None, url |-> U2, url_hash |-> 42] >>,
              history |-> << [guid |-> "h1", title |-> <<>>, url |-> U1],
                             [guid |-> "h2", title |-> THi, url |-> U3] >>,
              favicons |-> << <<41, Blob1>> >>]
        ELSE [bookmarks |-> << [guid |-> "b3", title |-> THi, url |-> U2, url_hash |-> 42] >>,
              history |-> << [guid |-> "h3", title |-> None, url |-> U3] >>,
              favicons |-> << <<42, Blob2>> >>]]

\* ------------------------------------------------------------------ discovery
\* Section names of profiles.ini, as characters.
NameProfile0 == <<"P", "r", "o", "f", "i", "l", "e", "0">>
NameProfile1 == <<"P", "r", "o", "f", "i", "l", "e", "1">>
NameLowerProfile == <<"p", "r", "o", "f", "i", "l", "e", "2">>
NameGeneral == <<"G", "e", "n", "e", "r", "a", "l">>
PrefixProfile == <<"P", "r", "o", "f", "i", "l", "e">>

\* str.startswith
StartsWith(s, prefix) ==
    Len(s) >= Len(prefix) /\ SubSeq(s, 1, Len(prefix)) = prefix

\* A Path value with a "%" that is followed by neither "%" nor "(":
\* config[section]["Path"] raises InterpolationSyntaxError for it.
BadPath == "p%C"
InterpolationError(path) == path = BadPath

\* Path.exists() of a store file under a profile path.
StoreExists(miss, path, kind) == <<path, kind>> \notin miss

\* Lines 42-48 over the sections that are left, with the exception handler of
\* lines 50-53: an exception raised for a section ends the loop and what was
\* appended before it is returned.
RECURSIVE ScanSections(_, _, _)
ScanSections(sections, miss, found) ==
    IF sections = <<>> THEN found
    ELSE LET s == Head(sections)
         IN IF StartsWith(s.name, PrefixProfile) /\ s.has_path
            THEN IF InterpolationError(s.path) THEN found
                 ELSE IF StoreExists(miss, s.path, "places")
                         /\ StoreExists(miss, s.path, "favicons")
                      THEN ScanSections(Tail(sections), miss, Append(found, s.path))
                      ELSE ScanSections(Tail(sections), miss, found)
            ELSE ScanSections(Tail(sections), miss, found)

\* ConfigParser is strict: config.read raises DuplicateSectionError when a section
\* name occurs twice.
DuplicateSection(sections) ==
    \E j, k \in DOMAIN sections : j # k /\ sections[j].name = sections[k].name

\* get_available_profiles, lines 30-53. reg.ini is "ok", "absent" (config.read
\* skips a file it cannot open: no section) or "malformed" (config.read raises,
\* line 50 catches).
GetAvailableProfiles(reg, miss) ==
    IF ~reg.root_exists THEN <<>>
    ELSE IF reg.ini = "malformed" \/ DuplicateSection(reg.sections) THEN <<>>
    ELSE IF reg.ini = "absent" THEN <<>>
    ELSE ScanSections(reg.sections, miss, <<>>)

Section(name, has_path, path) == [name |-> name, has_path |-> has_path, path |-> path]

\* A firefox root with the two profiles of FixedStore registered.
FixedRegistry ==
    [root_exists |-> TRUE, ini |-> "ok",
     sections |-> << Section(NameGeneral, FALSE, NoProfile),
                     Section(NameProfile0, TRUE, "pA"),
                     Section(NameProfile1, TRUE, "pB") >>]

AllAttrs == {"_current_profile_path", "_index_history"}

\* Plugin.__init__ with both profiles discovered and nothing persisted: the first
\* profile is selected and index_history is False; no thread, no item published.
Init ==
    /\ cur_profile = "pA"
    /\ index_history = FALSE
    /\ attrs = AllAttrs
    /\ profiles = << "pA", "pB" >>
    /\ config = [current_profile_path |-> "pA", index_history |-> FALSE]
    /\ registry = FixedRegistry
    /\ persisted = <<>>
    /\ fg = "idle"
    /\ thread = 0
    /\ th = [t \in TIDs |-> NewThread]
    /\ files = <<>>
    /\ published = <<>>
    /\ store = FixedStore
    /\ missing = {}
    /\ emptied = {}
    /\ built = NoBuild
    /\ ncalls = 0
    /\ nfaults = 0
    /\ burst = 0

ConfigVars == << cur_profile, index_history, attrs, profiles, config >>
EnvVars == << store, missing, emptied, registry, persisted >>
WorkerVars == << th, files, published, built >>
CountVars == << nfaults, burst >>

\* ------------------------------------------------------------------ foreground
\* writeConfig(key, value): the key is set in the host's configuration.
WriteConfig(cfg, key, value) ==
    [k \in (DOMAIN cfg) \cup {key} |-> IF k = key THEN value ELSE cfg[k]]

\* The values of a sequence.
Elems(seq) == { seq[k] : k \in DOMAIN seq }

\* current_profile_path.setter, lines 177-178, up to the call of updateIndexItems.
\* The config widget (lines 194-197) offers the values of self.profiles.
SetCurrentProfilePath(value) ==
    /\ fg = "idle"
    /\ ncalls < MaxOps
    /\ cur_profile' = value
    /\ attrs' = attrs \cup {"_current_profile_path"}
    /\ config' = WriteConfig(config, "current_profile_path", value)
    /\ fg' = "call"
    /\ ncalls' = ncalls + 1
    /\ UNCHANGED << index_history, profiles, thread, EnvVars, WorkerVars, CountVars >>

\* index_history.setter, lines 187-188, up to the call of updateIndexItems.
SetIndexHistory(value) ==
    /\ fg = "idle"
    /\ ncalls < MaxOps
    /\ index_history' = value
    /\ attrs' = attrs \cup {"_index_history"}
    /\ config' = WriteConfig(config, "index_history", value)
    /\ fg' = "call"
    /\ ncalls' = ncalls + 1
    /\ UNCHANGED << cur_profile, profiles, thread, EnvVars, WorkerVars, CountVars >>

\* The host calls updateIndexItems itself (the handler is loaded, the index is reset).
HostUpdate ==
    /\ fg = "idle"
    /\ ncalls < MaxOps
    /\ fg' = "call"
    /\ ncalls' = ncalls + 1
    /\ UNCHANGED << ConfigVars, thread, EnvVars, WorkerVars, CountVars >>

\* Lines 215-216: a new Thread object replaces self.thread and is started. The
\* Thread object it replaces is no longer referenced: if it has ended it is
\* released ("gone"), if it is alive it keeps running.
StartThread ==
    /\ thread' = thread + 1
    /\ th' = [u \in TIDs |->
                IF u = thread + 1 THEN [NewThread EXCEPT !.pc = "l220"]
                ELSE IF u = thread /\ ~IsAlive(u) THEN [NewThread EXCEPT !.pc = "gone"]
                ELSE th[u]]

\* Mutant of UpdateIndexItemsIdle: the new thread is also joined before returning.
UpdateIndexItemsIdleThenJoin ==
    /\ fg = "call"
    /\ ~IsAlive(thread)
    /\ StartThread
    /\ fg' = "join"
    /\ burst' = 0
    /\ UNCHANGED << ConfigVars, EnvVars, files, published, built, ncalls, nfaults >>

\* updateIndexItems when self.thread is None or not alive: lines 213, 215, 216.
\* The thread is started and runs from here on; the call has not yet returned.
UpdateIndexItemsIdle ==
    /\ fg = "call"
    /\ ~IsAlive(thread)
    /\ StartThread
    /\ fg' = "started"
    /\ burst' = 0
    /\ UNCHANGED << ConfigVars, EnvVars, files, published, built, ncalls, nfaults >>

\* Mutant of UpdateIndexItemsBusy: line 214's join is left out.
UpdateIndexItemsNoJoin ==
    /\ fg = "call"
    /\ IsAlive(thread)
    /\ StartThread
    /\ fg' = "started"
    /\ UNCHANGED << ConfigVars, EnvVars, files, published, built, ncalls, CountVars >>

\* Mutant of UpdateIndexItemsBusy: a call that finds a rebuild alive returns at once
\* and starts nothing.
UpdateIndexItemsBusyDropsTrigger ==
    /\ fg = "call"
    /\ IsAlive(thread)
    /\ fg' = "idle"
    /\ UNCHANGED << ConfigVars, EnvVars, thread, WorkerVars, ncalls, CountVars >>

\* updateIndexItems when self.thread is alive: line 213, and line 214 begins to wait.
UpdateIndexItemsBusy ==
    /\ fg = "call"
    /\ IsAlive(thread)
    /\ fg' = "join"
    /\ UNCHANGED << ConfigVars, EnvVars, thread, WorkerVars, ncalls, CountVars >>

\* thread.join() returns once the thread has ended; then lines 215-216 start the
\* new thread.  The call has not yet returned.
JoinReturn ==
    /\ fg = "join"
    /\ ~IsAlive(thread)
    /\ StartThread
    /\ fg' = "started"
    /\ burst' = burst + 1
    /\ UNCHANGED << ConfigVars, EnvVars, files, published, built, ncalls, nfaults >>

\* Thread.start() (line 216) returns and updateIndexItems returns to its caller,
\* wherever the thread it started has got to in the meantime.
UpdateIndexItemsReturn ==
    /\ fg = "started"
    /\ fg' = "idle"
    /\ UNCHANGED << ConfigVars, EnvVars, thread, WorkerVars, ncalls, CountVars >>

\* Mutant of PluginInit: the persisted profile is kept without the test of line 150.
PluginInitKeepingPersisted ==
    /\ fg = "new"
    /\ fg' = "idle"
    /\ profiles' = GetAvailableProfiles(registry, missing)
    /\ IF profiles' = <<>>
       THEN UNCHANGED << cur_profile, index_history, attrs, config >>
       ELSE LET valid == "current_profile_path" \in DOMAIN config
                cfg1 == IF valid THEN config
                        ELSE WriteConfig(config, "current_profile_path", profiles'[1])
                has_ih == "index_history" \in DOMAIN config
            IN /\ cur_profile' = IF valid THEN config.current_profile_path ELSE profiles'[1]
               /\ index_history' = IF has_ih THEN config.index_history ELSE FALSE
               /\ config' = IF has_ih THEN cfg1 ELSE WriteConfig(cfg1, "index_history", FALSE)
               /\ attrs' = AllAttrs
    /\ UNCHANGED << EnvVars, thread, WorkerVars, ncalls, CountVars >>

\* Plugin.__init__, lines 137-159. readConfig returns None for a key that is not
\* persisted. Without a profile it returns at line 146 and neither attribute is set.
PluginInit ==
    /\ fg = "new"
    /\ fg' = "idle"
    /\ profiles' = GetAvailableProfiles(registry, missing)
    /\ IF profiles' = <<>>
       THEN UNCHANGED << cur_profile, index_history, attrs, config >>
       ELSE LET valid == /\ "current_profile_path" \in DOMAIN config
                         /\ config.current_profile_path \in Elems(profiles')
                cfg1 == IF valid THEN config
                        ELSE WriteConfig(config, "current_profile_path", profiles'[1])
                has_ih == "index_history" \in DOMAIN config
            IN /\ cur_profile' = IF valid THEN config.current_profile_path ELSE profiles'[1]
               /\ index_history' = IF has_ih THEN config.index_history ELSE FALSE
               /\ config' = IF has_ih THEN cfg1 ELSE WriteConfig(cfg1, "index_history", FALSE)
               /\ attrs' = AllAttrs
    /\ UNCHANGED << EnvVars, thread, WorkerVars, ncalls, CountVars >>

\* The host releases the plugin when self.thread is None or not alive: __del__
\* runs in the foreground, the test of line 162 fails and it returns at once.
DelIdle ==
    /\ fg = "idle"
    /\ ~IsAlive(thread)
    /\ fg' = "deleted"
    /\ UNCHANGED << ConfigVars, EnvVars, thread, WorkerVars, ncalls, CountVars >>

\* The host releases the plugin while self.thread is alive and still holds its
\* target, the bound method self.update_index_items_task of line 215: the thread
\* keeps the plugin, and __del__ does not run yet.
ReleaseBusy ==
    /\ fg = "idle"
    /\ IsAlive(thread)
    /\ fg' = "released"
    /\ UNCHANGED << ConfigVars, EnvVars, thread, WorkerVars, ncalls, CountVars >>

\* The target of the thread has returned or raised and Thread.run drops it: the
\* plugin is released and __del__ runs on the worker thread.  The test of line
\* 162 holds (the thread has not ended), thread.join() of line 163 raises
\* RuntimeError (a thread cannot join itself), which the interpreter reports and
\* ignores; the plugin is deleted while its thread is alive.
DelOnWorker ==
    /\ fg = "released"
    /\ th[thread].pc \in {"returning", "raising"}
    /\ fg' = "deleted"
    /\ UNCHANGED << ConfigVars, EnvVars, thread, WorkerVars, ncalls, CountVars >>

\* Mutant of DelBusy: __del__ returns without joining the thread that is alive.
DelBusyNoJoin ==
    /\ fg = "idle"
    /\ thread # 0
    /\ th[thread].pc \in {"returning", "raising"}
    /\ fg' = "deleted"
    /\ UNCHANGED << ConfigVars, EnvVars, thread, WorkerVars, ncalls, CountVars >>

\* The host releases the plugin when the target of self.thread has returned or
\* raised and Thread.run has dropped it, but the thread has not ended: __del__
\* runs in the foreground, the test of line 162 holds, and line 163 begins to
\* wait.
DelBusy ==
    /\ fg = "idle"
    /\ thread # 0
    /\ th[thread].pc \in {"returning", "raising"}
    /\ fg' = "deljoin"
    /\ UNCHANGED << ConfigVars, EnvVars, thread, WorkerVars, ncalls, CountVars >>

\* Line 163: thread.join() returns once the thread has ended, and __del__ returns.
DelJoinReturn ==
    /\ fg = "deljoin"
    /\ ~IsAlive(thread)
    /\ fg' = "deleted"
    /\ UNCHANGED << ConfigVars, EnvVars, thread, WorkerVars, ncalls, CountVars >>

\* ------------------------------------------------------------------ environment
\* A store file of a profile disappears (the profile is deleted or moved).
RemoveStore(p, kind) ==
    /\ nfaults < MaxFaults
    /\ <<p, kind>> \notin missing
    /\ missing' = missing \cup {<<p, kind>>}
    /\ emptied' = emptied \ {<<p, kind>>}
    /\ nfaults' = nfaults + 1
    /\ UNCHANGED << ConfigVars, fg, thread, store, registry, persisted, WorkerVars, ncalls,
                    burst >>

\* ------------------------------------------------------------------ the task
Rest == << ConfigVars, fg, thread, EnvVars, ncalls, burst >>
\* The same without the store files, for the steps that run sqlite3.connect.
RestButStoreFiles == << ConfigVars, fg, thread, store, registry, persisted, ncalls, burst >>

\* The store file exists with its tables.
Intact(f) == f \notin missing /\ f \notin emptied

\* Lines 62-64 on a store file that is as line 59 found it: the file is opened
\* and left as it is.
Connect(f) ==
    /\ Intact(f)
    /\ UNCHANGED << missing, emptied >>

\* Lines 62-64 and a query that ends with sqlite3.Error.  On an intact file
\* the error is a fault of the environment (locked or malformed store).  A file
\* removed since line 59 is created anew by sqlite3.connect, empty, and every
\* query on a file without tables raises sqlite3.OperationalError.
ConnectQueryError(f) ==
    /\ IF Intact(f)
       THEN nfaults < MaxFaults /\ nfaults' = nfaults + 1
       ELSE nfaults' = nfaults
    /\ missing' = missing \ {f}
    /\ emptied' = IF f \in missing THEN emptied \cup {f} ELSE emptied

\* Mutant of Raise: an error handler publishes an empty collection.
RaisePublishingEmpty(t) ==
    /\ th' = [th EXCEPT ![t] = [NewThread EXCEPT !.pc = "raising"]]
    /\ published' = <<>>
    /\ built' = built

\* The target raises: the exception leaves update_index_items_task before line 297
\* is reached.  The thread is still alive; it ends in a later step (ThreadFails).
Raise(t) ==
    /\ th' = [th EXCEPT ![t] = [NewThread EXCEPT !.pc = "raising"]]
    /\ published' = published
    /\ built' = built

\* Mutant of ReadPlacesPath: an attribute that was never set reads as a value.
ReadPlacesPathNoAttributeError(t) ==
    /\ th[t].pc = "l220"
    /\ th' = [th EXCEPT ![t].pc = "l221", ![t].places_db = cur_profile,
                        ![t].start_profile = cur_profile,
                        ![t].start_history = index_history]
    /\ UNCHANGED << Rest, nfaults, files, published, built >>

\* Line 220: places_db is built from self.current_profile_path as it is now; the
\* property (line 173) raises AttributeError when _current_profile_path was never
\* set, and the task ends.
ReadPlacesPath(t) ==
    /\ th[t].pc = "l220"
    /\ IF "_current_profile_path" \in attrs
       THEN /\ th' = [th EXCEPT ![t].pc = "l221", ![t].places_db = cur_profile,
                                ![t].start_profile = cur_profile,
                                ![t].start_history = index_history]
            /\ UNCHANGED << published, built >>
       ELSE Raise(t)
    /\ UNCHANGED << Rest, nfaults, files >>

\* Line 221: favicons_db is built from a second read of self.current_profile_path.
ReadFaviconsPath(t) ==
    /\ th[t].pc = "l221"
    /\ th' = [th EXCEPT ![t].pc = "l223", ![t].favicons_db = cur_profile]
    /\ UNCHANGED << Rest, nfaults, files, published, built >>

\* get_connection, line 59, under get_bookmarks (line 72): the file exists.  The
\* task is now before line 62; the file may be removed before it gets there.
GetBookmarksConnection(t) ==
    /\ th[t].pc = "l223"
    /\ <<th[t].places_db, "places">> \notin missing
    /\ th' = [th EXCEPT ![t].pc = "l223_62"]
    /\ UNCHANGED << Rest, nfaults, files, published, built >>

\* get_bookmarks, lines 62 and 73-85: the query's rows.
GetBookmarks(t) ==
    /\ th[t].pc = "l223_62"
    /\ Connect(<<th[t].places_db, "places">>)
    /\ th' = [th EXCEPT ![t].pc = "l227",
                        ![t].bookmarks = store[th[t].places_db].bookmarks]
    /\ UNCHANGED << RestButStoreFiles, nfaults, files, published, built >>

\* get_bookmarks, lines 62 and 87-89: sqlite3.Error is caught and [] returned.
GetBookmarksQueryError(t) ==
    /\ th[t].pc = "l223_62"
    /\ ConnectQueryError(<<th[t].places_db, "places">>)
    /\ th' = [th EXCEPT ![t].pc = "l227", ![t].bookmarks = <<>>, ![t].bq_err = TRUE]
    /\ UNCHANGED << RestButStoreFiles, files, published, built >>

\* get_connection, lines 59-60, under get_bookmarks: FileNotFoundError is no
\* sqlite3.Error and leaves the task.
GetBookmarksNotFound(t) ==
    /\ th[t].pc = "l223"
    /\ <<th[t].places_db, "places">> \in missing
    /\ Raise(t)
    /\ UNCHANGED << Rest, nfaults, files >>

\* Lines 227-231: the directory exists and glob("*") lists its entries.
ListFavicons(t) ==
    /\ th[t].pc = "l227"
    /\ th' = [th EXCEPT ![t].pc = "l231", ![t].todel = DOMAIN files]
    /\ UNCHANGED << Rest, nfaults, files, published, built >>

\* Line 232: one listed entry is removed.
Unlink(t, f) ==
    /\ th[t].pc = "l231"
    /\ f \in th[t].todel
    /\ files' = [g \in (DOMAIN files) \ {f} |-> files[g]]
    /\ th' = [th EXCEPT ![t].todel = th[t].todel \ {f}]
    /\ UNCHANGED << Rest, nfaults, published, built >>

\* Line 232: unlink raises OSError, which nothing catches.
UnlinkError(t, f) ==
    /\ nfaults < MaxFaults
    /\ nfaults' = nfaults + 1
    /\ th[t].pc = "l231"
    /\ f \in th[t].todel
    /\ Raise(t)
    /\ UNCHANGED << Rest, files >>

\* Mutant of GetFavicons: seen_urls is not a fresh set (line 237) but holds the
\* URLs of the rebuild before.
GetFaviconsKeepingSeenUrls(t) ==
    /\ th[t].pc = "l234_62"
    /\ Connect(<<th[t].favicons_db, "favicons">>)
    /\ th' = [th EXCEPT ![t].pc = "l239", ![t].i = 1,
                        ![t].favicons = FaviconsDict(store[th[t].favicons_db].favicons),
                        ![t].seen_urls = { published[k].item.subtext : k \in DOMAIN published }]
    /\ UNCHANGED << RestButStoreFiles, nfaults, files, published, built >>

\* get_connection, line 59, under get_favicons_data (line 118), once line 231's
\* loop has ended: the file exists.  The task is now before line 62.
GetFaviconsConnection(t) ==
    /\ th[t].pc = "l231"
    /\ th[t].todel = {}
    /\ <<th[t].favicons_db, "favicons">> \notin missing
    /\ th' = [th EXCEPT ![t].pc = "l234_62"]
    /\ UNCHANGED << Rest, nfaults, files, published, built >>

\* get_favicons_data, lines 62 and 119-129: the query's rows as a dict; lines
\* 236-237 follow.
GetFavicons(t) ==
    /\ th[t].pc = "l234_62"
    /\ Connect(<<th[t].favicons_db, "favicons">>)
    /\ th' = [th EXCEPT ![t].pc = "l239", ![t].i = 1,
                        ![t].favicons = FaviconsDict(store[th[t].favicons_db].favicons)]
    /\ UNCHANGED << RestButStoreFiles, nfaults, files, published, built >>

\* get_favicons_data, lines 62 and 131-133: sqlite3.Error is caught and {}
\* returned.
GetFaviconsQueryError(t) ==
    /\ th[t].pc = "l234_62"
    /\ ConnectQueryError(<<th[t].favicons_db, "favicons">>)
    /\ th' = [th EXCEPT ![t].pc = "l239", ![t].i = 1, ![t].favicons = <<>>,
                        ![t].fq_err = TRUE]
    /\ UNCHANGED << RestButStoreFiles, files, published, built >>

\* get_connection, lines 59-60, under get_favicons_data: FileNotFoundError leaves
\* the task.
GetFaviconsNotFound(t) ==
    /\ th[t].pc = "l231"
    /\ th[t].todel = {}
    /\ <<th[t].favicons_db, "favicons">> \in missing
    /\ Raise(t)
    /\ UNCHANGED << Rest, nfaults, files >>

\* Whether the loop body writes a favicon file for row b (lines 240, 245, 246).
WritesFavicon(t, b) ==
    b.url \notin th[t].seen_urls /\ HasFavicon(th[t].favicons, b.url_hash)

\* The accumulator of the two loops, from the thread's locals.
Acc(t) == [items |-> th[t].index_items, seen |-> th[t].seen_urls]

\* Mutant of LoopBookmark: the favicon file of the row is not written.
LoopBookmarkNoWrite(t) ==
    /\ th[t].pc = "l239"
    /\ th[t].i <= Len(th[t].bookmarks)
    /\ LET b == th[t].bookmarks[th[t].i]
           acc == BookmarkStep(Acc(t), b, th[t].favicons)
       IN th' = [th EXCEPT ![t].i = th[t].i + 1, ![t].index_items = acc.items,
                           ![t].seen_urls = acc.seen]
    /\ UNCHANGED << Rest, nfaults, files, published, built >>

\* Lines 239-269 for the next bookmark row: skipped, or appended, with its favicon
\* file written first when the dict has data for its url_hash.
LoopBookmark(t) ==
    /\ th[t].pc = "l239"
    /\ th[t].i <= Len(th[t].bookmarks)
    /\ LET b == th[t].bookmarks[th[t].i]
           acc == BookmarkStep(Acc(t), b, th[t].favicons)
       IN /\ th' = [th EXCEPT ![t].i = th[t].i + 1, ![t].index_items = acc.items,
                              ![t].seen_urls = acc.seen]
          /\ files' = IF WritesFavicon(t, b)
                      THEN [f \in (DOMAIN files) \cup {FaviconPath(b.guid)} |->
                               IF f = FaviconPath(b.guid)
                               THEN th[t].favicons[b.url_hash] ELSE files[f]]
                      ELSE files
    /\ UNCHANGED << Rest, nfaults, published, built >>

\* Lines 248-249: open or write raises OSError, which nothing catches.  When open
\* raised (opened is false) no file is created; when open succeeded, the file
\* exists and holds the n bytes written before the error, none of them when
\* f.write itself raised.
WriteFaviconError(t) ==
    /\ nfaults < MaxFaults
    /\ nfaults' = nfaults + 1
    /\ th[t].pc = "l239"
    /\ th[t].i <= Len(th[t].bookmarks)
    /\ WritesFavicon(t, th[t].bookmarks[th[t].i])
    /\ LET b == th[t].bookmarks[th[t].i]
           favicon_data == th[t].favicons[b.url_hash]
       IN \E opened \in BOOLEAN, n \in 0..(Len(favicon_data) - 1) :
             files' = IF opened
                      THEN [f \in (DOMAIN files) \cup {FaviconPath(b.guid)} |->
                               IF f = FaviconPath(b.guid)
                               THEN SubSeq(favicon_data, 1, n) ELSE files[f]]
                      ELSE files
    /\ Raise(t)
    /\ UNCHANGED Rest

\* Line 271, once the bookmarks loop has ended: self._index_history as it is now.
ReadIndexHistory(t) ==
    /\ th[t].pc = "l239"
    /\ th[t].i > Len(th[t].bookmarks)
    /\ IF "_index_history" \in attrs
       THEN /\ th' = [th EXCEPT ![t].pc = IF index_history THEN "l272" ELSE "l297",
                                ![t].read_history = index_history]
            /\ UNCHANGED << published, built >>
       ELSE Raise(t)
    /\ UNCHANGED << Rest, nfaults, files >>

\* get_connection, line 59, under get_history (line 95): the file exists.  The
\* task is now before line 62.
GetHistoryConnection(t) ==
    /\ th[t].pc = "l272"
    /\ <<th[t].places_db, "places">> \notin missing
    /\ th' = [th EXCEPT ![t].pc = "l272_62"]
    /\ UNCHANGED << Rest, nfaults, files, published, built >>

\* get_history, lines 62 and 96-108: the query's rows.
GetHistory(t) ==
    /\ th[t].pc = "l272_62"
    /\ Connect(<<th[t].places_db, "places">>)
    /\ th' = [th EXCEPT ![t].pc = "l274", ![t].i = 1,
                        ![t].history = store[th[t].places_db].history]
    /\ UNCHANGED << RestButStoreFiles, nfaults, files, published, built >>

\* Mutant of GetHistoryQueryError: sqlite3.Error is not caught.
GetHistoryQueryErrorRaises(t) ==
    /\ th[t].pc = "l272_62"
    /\ ConnectQueryError(<<th[t].places_db, "places">>)
    /\ th' = [th EXCEPT ![t] = [NewThread EXCEPT !.pc = "raising"]]
    /\ UNCHANGED << RestButStoreFiles, files, published, built >>

\* get_history, lines 62 and 110-112: sqlite3.Error is caught and [] returned.
GetHistoryQueryError(t) ==
    /\ th[t].pc = "l272_62"
    /\ ConnectQueryError(<<th[t].places_db, "places">>)
    /\ th' = [th EXCEPT ![t].pc = "l274", ![t].i = 1, ![t].history = <<>>,
                        ![t].hq_err = TRUE]
    /\ UNCHANGED << RestButStoreFiles, files, published, built >>

\* get_connection, lines 59-60, under get_history: FileNotFoundError leaves the task.
GetHistoryNotFound(t) ==
    /\ th[t].pc = "l272"
    /\ <<th[t].places_db, "places">> \in missing
    /\ Raise(t)
    /\ UNCHANGED << Rest, nfaults, files >>

\* Mutant of LoopHistory: setIndexItems is called inside the loop.
LoopHistoryPublishing(t) ==
    /\ th[t].pc = "l274"
    /\ th[t].i <= Len(th[t].history)
    /\ LET acc == HistoryStep([items |-> th[t].index_items, seen |-> th[t].seen_urls],
                              th[t].history[th[t].i])
       IN /\ th' = [th EXCEPT ![t].i = th[t].i + 1, ![t].index_items = acc.items,
                              ![t].seen_urls = acc.seen]
          /\ published' = acc.items
    /\ UNCHANGED << Rest, nfaults, files, built >>

\* Lines 274-295 for the next history row: skipped or appended.
LoopHistory(t) ==
    /\ th[t].pc = "l274"
    /\ th[t].i <= Len(th[t].history)
    /\ LET acc == HistoryStep(Acc(t), th[t].history[th[t].i])
       IN th' = [th EXCEPT ![t].i = th[t].i + 1, ![t].index_items = acc.items,
                           ![t].seen_urls = acc.seen]
    /\ UNCHANGED << Rest, nfaults, files, published, built >>

\* Whether thread t is at line 297: index_history was false at line 271, or the
\* history loop has ended.
AtSetIndexItems(t) ==
    \/ th[t].pc = "l297"
    \/ th[t].pc = "l274" /\ th[t].i > Len(th[t].history)

\* What the task has read, kept with the collection it publishes.
BuildRecord(t) ==
    [places_db |-> th[t].places_db, favicons_db |-> th[t].favicons_db,
     bookmarks |-> th[t].bookmarks, favicons |-> th[t].favicons,
     history |-> th[t].history, start_profile |-> th[t].start_profile,
     start_history |-> th[t].start_history, read_history |-> th[t].read_history,
     bq_err |-> th[t].bq_err, fq_err |-> th[t].fq_err, hq_err |-> th[t].hq_err]

\* Line 297: setIndexItems replaces the host's collection and returns to the
\* task, whose last statement it was.  The thread is still alive; it ends in a
\* later step (ThreadEnds).
SetIndexItems(t) ==
    /\ AtSetIndexItems(t)
    /\ published' = th[t].index_items
    /\ built' = BuildRecord(t)
    /\ th' = [th EXCEPT ![t] = [NewThread EXCEPT !.pc = "returning"]]
    /\ UNCHANGED << Rest, nfaults, files >>

\* The thread started at lines 215-216 ends after its target has returned and
\* Thread.run has dropped the target (which runs __del__ first when the thread
\* held the plugin last): from now on is_alive() is false and a join returns.
ThreadEnds(t) ==
    /\ th[t].pc = "returning"
    /\ fg # "released"
    /\ th' = [th EXCEPT ![t].pc = "done"]
    /\ UNCHANGED << Rest, nfaults, files, published, built >>

\* The thread started at lines 215-216 ends after its target has raised.
ThreadFails(t) ==
    /\ th[t].pc = "raising"
    /\ fg # "released"
    /\ th' = [th EXCEPT ![t].pc = "failed"]
    /\ UNCHANGED << Rest, nfaults, files, published, built >>

\* ------------------------------------------------------------------ specification
Task(t) ==
    \/ ReadPlacesPath(t)
    \/ ReadFaviconsPath(t)
    \/ GetBookmarksConnection(t)
    \/ GetBookmarks(t)
    \/ GetBookmarksQueryError(t)
    \/ GetBookmarksNotFound(t)
    \/ ListFavicons(t)
    \/ \E f \in th[t].todel : Unlink(t, f)
    \/ \E f \in th[t].todel : UnlinkError(t, f)
    \/ GetFaviconsConnection(t)
    \/ GetFavicons(t)
    \/ GetFaviconsQueryError(t)
    \/ GetFaviconsNotFound(t)
    \/ LoopBookmark(t)
    \/ WriteFaviconError(t)
    \/ ReadIndexHistory(t)
    \/ GetHistoryConnection(t)
    \/ GetHistory(t)
    \/ GetHistoryQueryError(t)
    \/ GetHistoryNotFound(t)
    \/ LoopHistory(t)
    \/ SetIndexItems(t)
    \/ ThreadEnds(t)
    \/ ThreadFails(t)

Next ==
    \/ \E value \in Elems(profiles) : SetCurrentProfilePath(value)
    \/ \E value \in BOOLEAN : SetIndexHistory(value)
    \/ HostUpdate
    \/ UpdateIndexItemsIdle
    \/ UpdateIndexItemsBusy
    \/ JoinReturn
    \/ UpdateIndexItemsReturn
    \/ DelIdle
    \/ ReleaseBusy
    \/ DelOnWorker
    \/ DelBusy
    \/ DelJoinReturn
    \/ \E p \in Profiles, kind \in {"places", "favicons"} : RemoveStore(p, kind)
    \/ \E t \in TIDs : Task(t)

Spec == Init /\ [][Next]_vars

\* ------------------------------------------------------------------ build specification
\* Rebuilds over every store content within the bounds, with the configuration
\* left as it is and no fault of the environment: what
\* update_index_items_task publishes as a function of the rows it reads. All
\* foreground calls but two are taken as spent: a rebuild and the one that follows it.
BookmarkRowsAt(k) ==
    { [guid |-> "b" \o ToString(k), title |-> v[1], url |-> u, url_hash |-> v[2]] :
        u \in {U1, U2}, v \in { <<TEx, 41>>, <<None, 42>> } }

HistoryRowsAt(k) ==
    { [guid |-> "h" \o ToString(k), title |-> v[1], url |-> v[2]] :
        v \in { << <<>>, U1 >>, << THi, U2 >>, << None, U3 >> } }

\* Sequences of length n whose k-th element is drawn from RowsAt(k).
BookmarkSeqs(n) == { s \in [1..n -> UNION { BookmarkRowsAt(k) : k \in 1..n }] :
                        \A k \in 1..n : s[k] \in BookmarkRowsAt(k) }
HistorySeqs(n) == { s \in [1..n -> UNION { HistoryRowsAt(k) : k \in 1..n }] :
                        \A k \in 1..n : s[k] \in HistoryRowsAt(k) }

\* Results of the favicons query: none, one blob, a repeated url hash, an empty blob.
FaviconRowChoices ==
    { <<>>,
      << <<41, Blob1>> >>,
      << <<41, Blob1>>, <<42, Blob2>>, <<41, Blob2>> >>,
      << <<41, Blob1>>, <<42, <<>> >> >> }

BuildStores ==
    { [bookmarks |-> b, history |-> h, favicons |-> f] :
        b \in UNION { BookmarkSeqs(n) : n \in 0..MaxBookmarks },
        h \in UNION { HistorySeqs(n) : n \in 0..MaxHistory },
        f \in FaviconRowChoices }

InitBuild ==
    /\ cur_profile = "pA"
    /\ index_history \in BOOLEAN
    /\ attrs = AllAttrs
    /\ profiles = << "pA", "pB" >>
    /\ config = [current_profile_path |-> "pA", index_history |-> index_history]
    /\ registry = FixedRegistry
    /\ persisted = <<>>
    /\ fg = "idle"
    /\ thread = 0
    /\ th = [t \in TIDs |-> NewThread]
    /\ files = <<>>
    /\ published = <<>>
    /\ \E s \in BuildStores : store = [p \in Profiles |-> s]
    /\ missing = {}
    /\ emptied = {}
    /\ built = NoBuild
    /\ ncalls = MaxOps - 2
    /\ nfaults = MaxFaults
    /\ burst = 0

TaskBuild(t) ==
    \/ ReadPlacesPath(t)
    \/ ReadFaviconsPath(t)
    \/ GetBookmarksConnection(t)
    \/ GetBookmarks(t)
    \/ ListFavicons(t)
    \/ \E f \in th[t].todel : Unlink(t, f)
    \/ GetFaviconsConnection(t)
    \/ GetFavicons(t)
    \/ LoopBookmark(t)
    \/ ReadIndexHistory(t)
    \/ GetHistoryConnection(t)
    \/ GetHistory(t)
    \/ LoopHistory(t)
    \/ SetIndexItems(t)
    \/ ThreadEnds(t)

NextBuild ==
    \/ HostUpdate
    \/ UpdateIndexItemsIdle
    \/ UpdateIndexItemsBusy
    \/ JoinReturn
    \/ UpdateIndexItemsReturn
    \/ \E t \in TIDs : TaskBuild(t)

SpecBuild == InitBuild /\ [][NextBuild]_vars

\* ------------------------------------------------------------------ file fault specification
\* Rebuilds of a profile in which every bookmark has a favicon blob, so that a
\* rebuild writes two files and the next one finds two files to delete, with
\* unlink and write calls that may end with OSError.
FaultStore ==
    [bookmarks |-> << [guid |-> "b1", title |-> TEx, url |-> U1, url_hash |-> 41],
                      [guid |-> "b2", title |-> THi, url |-> U2, url_hash |-> 42] >>,
     history |-> << [guid |-> "h1", title |-> None, url |-> U3] >>,
     favicons |-> << <<41, Blob1>>, <<42, Blob2>> >>]

InitFaults ==
    /\ cur_profile = "pA"
    /\ index_history \in BOOLEAN
    /\ attrs = AllAttrs
    /\ profiles = << "pA", "pB" >>
    /\ config = [current_profile_path |-> "pA", index_history |-> index_history]
    /\ registry = FixedRegistry
    /\ persisted = <<>>
    /\ fg = "idle"
    /\ thread = 0
    /\ th = [t \in TIDs |-> NewThread]
    /\ files = <<>>
    /\ published = <<>>
    /\ store = [p \in Profiles |-> FaultStore]
    /\ missing = {}
    /\ emptied = {}
    /\ built = NoBuild
    /\ ncalls = MaxOps - 2
    /\ nfaults = 0
    /\ burst = 0

TaskFaults(t) ==
    \/ TaskBuild(t)
    \/ \E f \in th[t].todel : UnlinkError(t, f)
    \/ WriteFaviconError(t)
    \/ ThreadFails(t)

NextFaults ==
    \/ HostUpdate
    \/ UpdateIndexItemsIdle
    \/ UpdateIndexItemsBusy
    \/ JoinReturn
    \/ UpdateIndexItemsReturn
    \/ \E t \in TIDs : TaskFaults(t)

SpecFaults == InitFaults /\ [][NextFaults]_vars

\* ------------------------------------------------------------------ discovery specification
\* get_available_profiles, applied by __init__, over every profiles.ini within
\* the bounds and some store files that do not exist.
SectionChoices ==
    { Section(NameProfile0, TRUE, "pA"),
      Section(NameProfile1, TRUE, "pB"),
      Section(NameProfile1, FALSE, NoProfile),
      Section(NameGeneral, TRUE, "pA"),
      Section(NameLowerProfile, TRUE, "pB"),
      Section(NameGeneral, TRUE, BadPath),
      Section(NameProfile1, TRUE, BadPath) }

SectionSeqs(n) == [1..n -> SectionChoices]

Registries ==
    { [root_exists |-> TRUE, ini |-> "ok", sections |-> ss] :
        ss \in UNION { SectionSeqs(n) : n \in 0..MaxSections } }
    \cup { [root_exists |-> r[1], ini |-> r[2],
            sections |-> << Section(NameProfile0, TRUE, "pA") >>] :
            r \in { <<FALSE, "ok">>, <<TRUE, "absent">>, <<TRUE, "malformed">> } }

\* The plugin before __init__ has run: no attribute, no thread, nothing persisted
\* unless stated.
NewPlugin ==
    /\ cur_profile = NoProfile
    /\ index_history = FALSE
    /\ attrs = {}
    /\ profiles = <<>>
    /\ fg = "new"
    /\ thread = 0
    /\ th = [t \in TIDs |-> NewThread]
    /\ files = <<>>
    /\ published = <<>>
    /\ store = FixedStore
    /\ built = NoBuild
    /\ nfaults = MaxFaults
    /\ burst = 0

InitDiscovery ==
    /\ NewPlugin
    /\ registry \in Registries
    /\ missing \in SUBSET { <<"pA", "places">>, <<"pB", "favicons">> }
    /\ emptied = {}
    /\ config = <<>>
    /\ persisted = config
    /\ ncalls = MaxOps

NextDiscovery == PluginInit

SpecDiscovery == InitDiscovery /\ [][NextDiscovery]_vars

\* ------------------------------------------------------------------ construction specification
\* __init__ over what the host has persisted and over three outcomes of discovery
\* (both profiles, the second only, none), followed by two foreground calls and
\* their rebuilds, without a fault of the environment.
RegistryNoRoot == [root_exists |-> FALSE, ini |-> "absent", sections |-> <<>>]

\* The host's configuration with the keys that are persisted: a profile may be
\* one that is no longer there ("pX").
PersistedConfigs ==
    { [k \in keys |-> IF k = "current_profile_path" THEN c ELSE h] :
        keys \in SUBSET {"current_profile_path", "index_history"},
        c \in Profiles \cup {"pX"}, h \in BOOLEAN }

InitPlugin ==
    /\ NewPlugin
    /\ registry \in {FixedRegistry, RegistryNoRoot}
    /\ missing \in { {}, { <<"pA", "favicons">> } }
    /\ emptied = {}
    /\ config \in PersistedConfigs
    /\ persisted = config
    /\ ncalls = MaxOps - 2

NextPlugin ==
    \/ PluginInit
    \/ \E value \in Elems(profiles) : SetCurrentProfilePath(value)
    \/ \E value \in BOOLEAN : SetIndexHistory(value)
    \/ HostUpdate
    \/ UpdateIndexItemsIdle
    \/ UpdateIndexItemsBusy
    \/ JoinReturn
    \/ UpdateIndexItemsReturn
    \/ \E t \in TIDs : TaskBuild(t)
    \/ \E t \in TIDs : ThreadFails(t)

SpecPlugin == InitPlugin /\ [][NextPlugin]_vars

\* ------------------------------------------------------------------ fair specification
\* The plugin of Spec without a fault of the environment, under the scheduling the
\* code runs with: a foreground call that has begun goes on whenever it can
\* (lines 213-216 hold no wait but the join), a join returns once its thread has
\* ended, and a started thread keeps being scheduled until its target returns.
\* Whether and when the host or the user makes a further call is left open.
InitLive ==
    /\ cur_profile = "pA"
    /\ index_history = FALSE
    /\ attrs = AllAttrs
    /\ profiles = << "pA", "pB" >>
    /\ config = [current_profile_path |-> "pA", index_history |-> FALSE]
    /\ registry = FixedRegistry
    /\ persisted = <<>>
    /\ fg = "idle"
    /\ thread = 0
    /\ th = [t \in TIDs |-> NewThread]
    /\ files = <<>>
    /\ published = <<>>
    /\ store = FixedStore
    /\ missing = {}
    /\ emptied = {}
    /\ built = NoBuild
    /\ ncalls = 0
    /\ nfaults = MaxFaults
    /\ burst = 0

NextLive ==
    \/ \E value \in Elems(profiles) : SetCurrentProfilePath(value)
    \/ \E value \in BOOLEAN : SetIndexHistory(value)
    \/ HostUpdate
    \/ UpdateIndexItemsIdle
    \/ UpdateIndexItemsBusy
    \/ JoinReturn
    \/ UpdateIndexItemsReturn
    \/ DelIdle
    \/ ReleaseBusy
    \/ DelOnWorker
    \/ DelBusy
    \/ DelJoinReturn
    \/ \E t \in TIDs : TaskBuild(t)

Fairness ==
    /\ WF_vars(UpdateIndexItemsIdle)
    /\ WF_vars(UpdateIndexItemsBusy)
    /\ WF_vars(JoinReturn)
    /\ WF_vars(UpdateIndexItemsReturn)
    /\ WF_vars(DelOnWorker)
    /\ WF_vars(DelJoinReturn)
    /\ \A t \in TIDs : WF_vars(TaskBuild(t))

SpecLive == InitLive /\ [][NextLive]_vars /\ Fairness

\* ------------------------------------------------------------------ properties
Urls(rows) == { rows[k].url : k \in DOMAIN rows }
\* The first row, in store order, with this URL.
FirstWithUrl(rows, u) ==
    rows[CHOOSE k \in DOMAIN rows :
            rows[k].url = u /\ \A j \in DOMAIN rows : rows[j].url = u => k <= j]
\* An item of the collection built from a history row or from a bookmark row.
FromHistory(it) == it.item.iconUrls = HistoryIconUrls
PublishedUrls == { published[i].item.subtext : i \in DOMAIN published }
SomeRebuildPublished == built # NoBuild

\* C1: a published collection holds each URL at most once; every URL of a bookmark
\* row the rebuild read is published as the item of the first bookmark row with
\* that URL, never as a history item, also when a history row has the same URL.
C1_UniqueUrlsBookmarkWins ==
    /\ \A i, j \in DOMAIN published :
          published[i].item.subtext = published[j].item.subtext => i = j
    /\ Urls(built.bookmarks) \subseteq PublishedUrls
    /\ \A i \in DOMAIN published :
          LET it == published[i] IN
          it.item.subtext \in Urls(built.bookmarks) =>
             /\ ~FromHistory(it)
             /\ it.item.id = FirstWithUrl(built.bookmarks, it.item.subtext).guid
    /\ built.read_history =>
          Urls(built.history) \subseteq PublishedUrls

\* C1's case: history was indexed, two bookmark rows share a URL and a history row
\* has that URL too.
C1_Witness ==
    /\ SomeRebuildPublished
    /\ built.read_history
    /\ \E j, k \in DOMAIN built.bookmarks :
          /\ j < k
          /\ built.bookmarks[j].url = built.bookmarks[k].url
          /\ built.bookmarks[j].url \in Urls(built.history)

\* C7: the published collection is the initial empty one or all of what one rebuild
\* built from the rows it read, and it changes only in a step in which a thread
\* executes line 297, the last statement of its task.
C7_PublishedIsInitialOrComplete ==
    /\ [](IF SomeRebuildPublished
          THEN published = BuildIndexItems(built.bookmarks, built.favicons,
                                           built.history, built.read_history)
          ELSE published = <<>>)
    /\ [][published' # published =>
             \E t \in TIDs : /\ AtSetIndexItems(t)
                             /\ th'[t].pc = "returning"
                             /\ published' = th[t].index_items]_vars

\* C7's case: a rebuild holds a half-built collection while the host still holds
\* all of an earlier rebuild's.
C7_Witness ==
    /\ published # <<>>
    /\ \E t \in TIDs : /\ th[t].pc \in {"l239", "l274"}
                       /\ th[t].index_items # <<>>
                       /\ th[t].index_items # published

AliveThreads == { t \in TIDs : IsAlive(t) }
\* Calls of updateIndexItems that have begun and not yet reached line 216.
PendingCalls == IF fg \in {"call", "join"} THEN 1 ELSE 0

\* C2: at most one rebuild is running, and it is the one self.thread names; while a
\* call waits in join no later thread has been started, and the rebuilds started
\* are as many as the calls of updateIndexItems that have reached line 216: every
\* call starts exactly one.
C2_OneRebuildAtATime ==
    /\ Cardinality(AliveThreads) <= 1
    /\ AliveThreads \subseteq {thread}
    /\ \A t \in TIDs : t > thread => th[t].pc = "new"
    /\ thread = ncalls - PendingCalls

\* C2's case: a call found a rebuild running, waited, and the rebuild it started
\* after the join is now the one running.
C2_Witness ==
    /\ burst = 1
    /\ thread = 2
    /\ IsAlive(thread)
    /\ th[1].pc = "gone"

\* C3: the places store and the favicons store of a rebuild are those of the
\* profile that was current at its first step (line 220), and whether it indexes
\* history (line 271) is what index_history was at its first step.
C3_OneConfigurationPerRebuild ==
    \A t \in TIDs :
        /\ th[t].favicons_db # NoProfile =>
              /\ th[t].places_db = th[t].start_profile
              /\ th[t].favicons_db = th[t].start_profile
        /\ th[t].pc \in {"l272", "l272_62", "l274", "l297"} =>
              th[t].read_history = th[t].start_history

\* C4: a collection published by a rebuild at whose first step index_history was
\* false holds no item built from a history row (stated for the runs without a
\* fault of the environment).
C4_NoHistoryWhenDisabledAtStart ==
    (SomeRebuildPublished /\ ~built.start_history /\ nfaults = 0) =>
        \A i \in DOMAIN published : ~FromHistory(published[i])

\* C6 as claimed: no call of updateIndexItems waits for a rebuild.
C6_TriggerNeverWaits == ~(fg = "join" /\ IsAlive(thread))

\* C6 as amended: a call starts its rebuild only when no earlier rebuild is alive
\* and then returns whatever that rebuild is doing: nothing stands between line
\* 216 and the return, and the rebuild may have run any number of its steps, or
\* all of them, by then; a call waits only when it found a rebuild alive, and
\* then until that rebuild has ended.
C6_TriggerWaitsOnlyForRunningRebuild ==
    /\ [][(fg \in {"call", "join"} /\ fg' \notin {"call", "join"}) =>
             /\ ~IsAlive(thread)
             /\ fg' = "started"
             /\ thread' = thread + 1
             /\ th'[thread'].pc = "l220"]_vars
    /\ [](fg = "started" => ENABLED UpdateIndexItemsReturn)
    /\ [][(fg = "started" /\ fg' # "started") => (fg' = "idle" /\ th' = th)]_vars
    /\ [][(fg # "join" /\ fg' = "join") => IsAlive(thread)]_vars
    /\ [][(fg = "join" /\ IsAlive(thread)) => fg' = "join"]_vars

\* C6's case: a call that had to wait has started its rebuild after the join; the
\* call has not yet returned and the rebuild has already published, without the
\* call waiting for it.
C6_Witness ==
    /\ fg = "started"
    /\ burst >= 1
    /\ thread = 2
    /\ th[thread].pc = "returning"
    /\ published # <<>>

\* The favicon files the items of the published collection refer to.
ReferencedFaviconFiles ==
    { FaviconPath(published[i].item.id) :
        i \in { j \in DOMAIN published :
                  published[j].item.iconUrls = FaviconIconUrls(published[j].item.id) } }

\* C8: whenever no rebuild is in flight, the favicons directory holds the files of
\* the rebuild that published last, so that every favicon file an item of the
\* published collection refers to exists, also after a later rebuild has ended
\* with an error.
C8_PublishedFaviconFilesExist ==
    (SomeRebuildPublished /\ AliveThreads = {}) =>
        ReferencedFaviconFiles \subseteq DOMAIN files

\* C9: the step in which an exception leaves the task of a rebuild and the step
\* in which its thread then ends leave the published collection as it was, and
\* nothing else happens in that thread between the two; the next call of
\* updateIndexItems after the thread has ended starts a new thread without waiting.
C9_FailedRebuildPublishesNothing ==
    /\ [][\A t \in TIDs :
             (th'[t] # th[t] /\ th'[t].pc \in {"raising", "failed"}) =>
                 /\ published' = published
                 /\ built' = built]_vars
    /\ [][\A t \in TIDs :
             (th'[t] # th[t] /\ th[t].pc = "raising") =>
                 (th'[t].pc = "failed" /\ ~IsAlive(t)')]_vars
    /\ [][(fg = "call" /\ fg' # "call" /\ thread # 0 /\ th[thread].pc = "failed") =>
             /\ fg' = "started"
             /\ thread' = thread + 1
             /\ th'[thread'].pc = "l220"]_vars

\* C9's case: the last rebuild ended with an exception, the collection of an
\* earlier rebuild is still published, and a new call is about to start a thread.
C9_Witness ==
    /\ thread # 0
    /\ th[thread].pc = "failed"
    /\ published # <<>>
    /\ fg = "call"

\* Thread t has passed the existence check of line 59 and is about to connect
\* and run one of the three queries.
QueryPending(t) == th[t].pc \in {"l223_62", "l234_62", "l272_62"}

BookmarkItems == SelectSeq(published, LAMBDA it : ~FromHistory(it))
HistoryItems == SelectSeq(published, LAMBDA it : FromHistory(it))

\* C10: a query, also one that ends with sqlite3.Error (a fault on an intact
\* store, or a store file removed after line 59 and created anew by line 62),
\* ends no thread and raises nothing out of the task, which goes on with its
\* next line; the rebuild that
\* publishes after a failed bookmarks query publishes no bookmark item and the
\* history rows of its store when history is indexed, after a failed history query
\* all its bookmark items and no history item, after a failed favicons query
\* every bookmark item with the two fallback icon references.
C10_QueryErrorsDegrade ==
    /\ [][\A t \in TIDs :
             (QueryPending(t) /\ th'[t] # th[t]) =>
                 /\ th'[t].pc \in {"l227", "l239", "l274"}
                 /\ published' = published]_vars
    /\ [](built.bq_err =>
             /\ BookmarkItems = <<>>
             /\ (built.read_history /\ ~built.hq_err) =>
                   published = BuildIndexItems(<<>>, <<>>,
                                               store[built.places_db].history, TRUE))
    /\ [](built.hq_err =>
             /\ HistoryItems = <<>>
             /\ ~built.bq_err =>
                   published = BuildIndexItems(store[built.places_db].bookmarks,
                                               built.favicons, <<>>, FALSE))
    /\ [](built.fq_err =>
             /\ \A i \in DOMAIN BookmarkItems :
                   BookmarkItems[i].item.iconUrls = FallbackIconUrls
             /\ ~built.bq_err =>
                   Len(BookmarkItems) =
                      Cardinality(Urls(store[built.places_db].bookmarks)))

\* C10's case: the bookmarks query failed and the history rows were published.
C10_Witness ==
    /\ built.bq_err
    /\ built.read_history
    /\ HistoryItems # <<>>
    /\ published = HistoryItems

\* Whether row k of thread t's bookmarks, reached from the loop's position, would
\* have its favicon file written (lines 240-249): its URL is not one seen before it.
SiblingWritePending(t) ==
    \E k \in (th[t].i + 1)..Len(th[t].bookmarks) :
        /\ HasFavicon(th[t].favicons, th[t].bookmarks[k].url_hash)
        /\ th[t].bookmarks[k].url \notin
              th[t].seen_urls \cup { th[t].bookmarks[j].url : j \in th[t].i..(k - 1) }

\* C11: deleting and writing favicon files is best-effort per file: no exception
\* leaves the task of a rebuild while another listed file is still to be deleted
\* (line 232), or while the favicon file of a later bookmark row is still to be
\* written (lines 248-249).
C11_FileFailureSparesSiblings ==
    [][\A t \in TIDs :
          (th[t].pc # "raising" /\ th'[t].pc = "raising") =>
              /\ ~(th[t].pc = "l231" /\ Cardinality(th[t].todel) > 1)
              /\ ~(th[t].pc = "l239" /\ SiblingWritePending(t))]_vars

\* Thread t is inside update_index_items_task: started, and its target has
\* neither returned nor raised.
InTask(t) == th[t].pc \notin {"new", "returning", "raising", "done", "failed", "gone"}

RowWithGuid(rows, g) == rows[CHOOSE k \in DOMAIN rows : rows[k].guid = g]

\* The favicon part of a published bookmark item, given whether the mapping counts
\* as holding a blob for the row's url_hash: the file named from the guid holds the
\* blob and is the item's first icon reference, or else the item has the two
\* fallback references.
FaviconRoundTrip(it, holds_blob) ==
    LET b == RowWithGuid(built.bookmarks, it.item.id)
    IN IF holds_blob
       THEN /\ FaviconPath(b.guid) \in DOMAIN files
            /\ files[FaviconPath(b.guid)] = built.favicons[b.url_hash]
            /\ it.item.iconUrls = << "file:" \o FaviconPath(b.guid), "xdg:firefox" >>
       ELSE it.item.iconUrls = << "file:" \o firefox_bookmark_icon, "xdg:firefox" >>

\* C13 as claimed: once a rebuild has published and ended, every bookmark item whose
\* url_hash is a key of the favicon mapping has its blob in its file and that file
\* as icon; every other bookmark item has the two fallback references.
C13_FaviconForEveryMappedHash ==
    (SomeRebuildPublished /\ AliveThreads = {}) =>
        \A i \in DOMAIN BookmarkItems :
            LET it == BookmarkItems[i]
                b == RowWithGuid(built.bookmarks, it.item.id)
            IN FaviconRoundTrip(it, b.url_hash \in DOMAIN built.favicons)

\* C13 as amended: the same with "holds a blob" read as "holds a blob that is not
\* empty": a url_hash mapped to an empty blob gets no file and the fallback
\* references.
C13_FaviconForEveryNonEmptyBlob ==
    (SomeRebuildPublished /\ AliveThreads = {}) =>
        \A i \in DOMAIN BookmarkItems :
            LET it == BookmarkItems[i]
                b == RowWithGuid(built.bookmarks, it.item.id)
            IN FaviconRoundTrip(it, /\ b.url_hash \in DOMAIN built.favicons
                                    /\ built.favicons[b.url_hash] # <<>>)

\* C13's case: the second rebuild has ended; one published bookmark has its blob in
\* its file, another one's url_hash is mapped to an empty blob.
C13_Witness ==
    /\ thread = 2
    /\ th[thread].pc = "done"
    /\ \E i, j \in DOMAIN BookmarkItems :
          LET bi == RowWithGuid(built.bookmarks, BookmarkItems[i].item.id)
              bj == RowWithGuid(built.bookmarks, BookmarkItems[j].item.id)
          IN /\ bi.url_hash \in DOMAIN built.favicons
             /\ built.favicons[bi.url_hash] = Blob1
             /\ files[FaviconPath(bi.guid)] = Blob1
             /\ bj.url_hash \in DOMAIN built.favicons
             /\ built.favicons[bj.url_hash] = <<>>

\* The row a published item was built from: a history row or a bookmark row of the
\* rebuild that published.
RowOfItem(it) ==
    IF FromHistory(it) THEN RowWithGuid(built.history, it.item.id)
    ELSE RowWithGuid(built.bookmarks, it.item.id)

\* C14: the searchable string of every published item is the lower-cased
\* concatenation of its record's title (the empty string for a null or empty
\* title), one space and its record's URL.
C14_SearchStringTitleOrEmpty ==
    \A i \in DOMAIN published :
        LET r == RowOfItem(published[i])
            title_or_empty == IF r.title = None THEN <<>> ELSE r.title
        IN published[i].string = Lower(title_or_empty \o <<" ">> \o r.url)

\* What the claim compares of a collection: guid, display text, URL and searchable
\* string of every item, in order.
Content(items) ==
    [i \in DOMAIN items |->
        << items[i].item.id, items[i].item.text, items[i].item.subtext, items[i].string >>]

\* C15: with the stores and the configuration left as they are, a rebuild that
\* publishes after an earlier rebuild has published leaves the content of the
\* published collection as it was, whatever files the earlier rebuild left.
C15_RebuildIsIdempotent ==
    [][SomeRebuildPublished => Content(published') = Content(published)]_vars

\* C15's case: the second rebuild has deleted and rewritten the favicon files of the
\* first and has published a collection with history items.
C15_Witness ==
    /\ thread = 2
    /\ th[thread].pc = "done"
    /\ th[1].pc = "gone"
    /\ files # <<>>
    /\ HistoryItems # <<>>
    /\ Len(BookmarkItems) < Len(built.bookmarks)

\* The position, among the rows a query returned, of the row with this guid.
RowIndex(rows, g) == CHOOSE k \in DOMAIN rows : rows[k].guid = g

\* C16: in the published collection no history item comes before a bookmark item,
\* and two items of the same group stand in the order in which the query returned
\* their rows.
C16_BookmarksFirstInStoreOrder ==
    \A i, j \in DOMAIN published :
        i < j =>
            LET a == published[i]
                b == published[j]
            IN /\ FromHistory(a) => FromHistory(b)
               /\ (~FromHistory(a) /\ ~FromHistory(b)) =>
                     RowIndex(built.bookmarks, a.item.id) < RowIndex(built.bookmarks, b.item.id)
               /\ (FromHistory(a) /\ FromHistory(b)) =>
                     RowIndex(built.history, a.item.id) < RowIndex(built.history, b.item.id)

\* C16's case: two bookmark items and a history item are published, and a history
\* row that stood before the published one was dropped as a duplicate.
C16_Witness ==
    /\ Len(BookmarkItems) = 2
    /\ Len(HistoryItems) = 1
    /\ Len(built.history) = 2
    /\ HistoryItems[1].item.id = built.history[2].guid

\* A section the claim counts: its name starts with "Profile", it has a Path key
\* and both store files exist under its path.
Qualifies(s) ==
    /\ StartsWith(s.name, PrefixProfile)
    /\ s.has_path
    /\ <<s.path, "places">> \notin missing
    /\ <<s.path, "favicons">> \notin missing

\* Reading the registry raises inside the try block of lines 38-48 (and line 50
\* catches): config.read raises for a malformed file or a repeated section name,
\* or line 44 raises for the Path value of a section that passed the test of
\* line 43.  An absent file raises nothing (config.read skips it), and the Path
\* value of a section whose name does not start with "Profile" is never retrieved.
Unreadable(reg) ==
    \/ reg.ini = "malformed"
    \/ /\ reg.ini = "ok"
       /\ \/ DuplicateSection(reg.sections)
          \/ \E k \in DOMAIN reg.sections :
                /\ StartsWith(reg.sections[k].name, PrefixProfile)
                /\ reg.sections[k].has_path
                /\ InterpolationError(reg.sections[k].path)

\* C17: after discovery self.profiles holds the Path values of the qualifying
\* sections, in the order of the registry, and is empty when the root directory
\* is absent or the registry cannot be read (the file is absent, or reading it
\* raises).
C17_ProfilesAreTheQualifyingSections ==
    fg # "new" =>
        IF \/ ~registry.root_exists
           \/ registry.ini = "absent"
           \/ Unreadable(registry)
        THEN profiles = <<>>
        ELSE LET sel == SelectSeq(registry.sections, Qualifies)
             IN profiles = [k \in DOMAIN sel |-> sel[k].path]

\* Whether the persisted profile is one of the discovered ones (line 150).
PersistedProfileValid ==
    /\ "current_profile_path" \in DOMAIN persisted
    /\ persisted.current_profile_path \in Elems(profiles)

\* C18: once __init__ has found a profile, current_profile_path is a discovered
\* profile and is what the configuration holds; the step of __init__ keeps a
\* persisted profile that is discovered and otherwise takes the first discovered
\* one and writes it back, and it takes the persisted index_history or, when
\* none is persisted, False.
C18_CurrentProfileIsDiscovered ==
    /\ []((fg # "new" /\ profiles # <<>>) =>
             /\ cur_profile \in Elems(profiles)
             /\ "current_profile_path" \in DOMAIN config
             /\ config.current_profile_path = cur_profile)
    /\ [][(fg = "new" /\ fg' # "new" /\ profiles' # <<>>) =>
             /\ PersistedProfileValid' => (cur_profile' = persisted.current_profile_path
                                           /\ config' = WriteConfig(config, "index_history",
                                                                    index_history'))
             /\ ~PersistedProfileValid' => (cur_profile' = profiles'[1]
                                            /\ config'.current_profile_path = profiles'[1])
             /\ index_history' = IF "index_history" \in DOMAIN persisted
                                 THEN persisted.index_history ELSE FALSE]_vars

\* C18's case: a profile that is not discovered was persisted and no
\* index_history; __init__ has replaced the profile by the only discovered one.
C18_Witness ==
    /\ fg = "idle"
    /\ thread = 0
    /\ DOMAIN persisted = {"current_profile_path"}
    /\ persisted.current_profile_path = "pX"
    /\ profiles = << "pB" >>
    /\ cur_profile = "pB"
    /\ config = [current_profile_path |-> "pB", index_history |-> FALSE]
    /\ index_history = FALSE

\* C20: when discovery finds no profile, the step of __init__ sets neither
\* attribute and writes nothing to the configuration; from then on
\* _current_profile_path stays unset, no thread gets past line 220, no file is
\* written or deleted and the published collection stays the initial empty one.
C20_NoProfileNoRebuild ==
    /\ [][(fg = "new" /\ fg' # "new" /\ profiles' = <<>>) =>
             (attrs' = {} /\ config' = persisted)]_vars
    /\ []((fg # "new" /\ profiles = <<>>) =>
             /\ "_current_profile_path" \notin attrs
             /\ \A t \in TIDs : th[t].pc \in {"new", "l220", "raising", "failed", "gone"}
             /\ files = <<>>
             /\ published = <<>>
             /\ built = NoBuild)

\* C20's case: no profile was found; a first rebuild has failed at line 220, the
\* index_history setter has been called since, and the rebuild it started has
\* failed as well.
C20_Witness ==
    /\ profiles = <<>>
    /\ fg = "idle"
    /\ "_index_history" \in attrs
    /\ thread = 2
    /\ th[1].pc = "gone"
    /\ th[2].pc = "failed"
    /\ published = <<>>

\* The collection line 297 holds for the configuration as it is now and the rows
\* of the current profile's stores.
FinalCollection ==
    BuildIndexItems(store[cur_profile].bookmarks,
                    FaviconsDict(store[cur_profile].favicons),
                    store[cur_profile].history, index_history)

\* C19: from some point on no call is pending and no rebuild is in flight, and,
\* when a rebuild was ever started, the published collection is the one built
\* from the configuration as the last setter call left it and the stores of
\* that profile.
C19_EventuallyFinalCollection ==
    <>[](/\ fg \in {"idle", "deleted"}
         /\ AliveThreads = {}
         /\ (ncalls > 0 => (thread = ncalls /\ published = FinalCollection)))

\* C19's case: three calls were made, two of them while a rebuild was in flight;
\* index_history and the profile were changed; all rebuilds have ended and the
\* collection of the second profile with its history item is published.
C19_Witness ==
    /\ thread = 3
    /\ burst = 2
    /\ fg = "idle"
    /\ AliveThreads = {}
    /\ cur_profile = "pB"
    /\ index_history
    /\ published = FinalCollection
    /\ HistoryItems # <<>>
====
